---- MODULE Spec2Model ----
(***************************************************************************)
(* The video-job pipeline of ShortCreatorWithMultiFallback:                *)
(* VideoProcessor.process_video and the stages it drives, over the         *)
(* SQLAlchemy session (the objects in memory) and the database (what the   *)
(* last successful commit left).                                           *)
(*                                                                         *)
(* Units.  Times are whole seconds.  The four raw scores are hundredths    *)
(* (0.4 is 40) and overall_score is thousandths (0.4 is 400), so that      *)
(* e*0.3 + m*0.2 + v*0.3 + q*0.2 is the integer 3e + 2m + 3v + 2q.          *)
(* A Python value that may be None is <<>> for None and <<v>> for v.       *)
(***************************************************************************)
EXTENDS Integers, Sequences, FiniteSets, TLC

\* ------------------------------------------------------------ bounds

\* process_video is invoked at most MaxRuns times on the job.
MaxRuns == 2

\* A re-run is started only if the store then holds at most MaxSegments rows.
MaxSegments == 2

\* ------------------------------------------------- the world outside

\* A text is the sequence of its characters.
Digits == << "0", "1", "2", "3", "4", "5", "6", "7", "8", "9" >>

\* The video behind job.youtube_url: yt-dlp's info['duration'] and ffprobe's
\* duration of the downloaded file.
Videos ==
  { [info_duration |-> 12,  probe_duration |-> 12],
    [info_duration |-> 42,  probe_duration |-> 42],
    [info_duration |-> 160, probe_duration |-> 160] }

\* str(e) of an exception raised by a collaborator (database, yt-dlp, ffmpeg).
FailureDescriptions == {"", "boom"}

\* A member of the oracle's JSON object where a number is expected: absent, a
\* number (in hundredths), or a value min() and max() reject (a string, null).
Missing == [ kind |-> "missing", value |-> 0 ]

Number(n) == [ kind |-> "number", value |-> n ]

NotANumber == [ kind |-> "other", value |-> 0 ]

\* A member of the oracle's JSON object where a list is expected: absent, a
\* list, or a value that cannot be sliced (null).
NoList == [ kind |-> "missing", items |-> <<>> ]

List(items) == [ kind |-> "list", items |-> items ]

NotAList == [ kind |-> "other", items |-> <<>> ]

\* A list of n labels, each one a text.
Labels(n) == [ k \in 1..n |-> << "t", "a", "g", Digits[(k % 10) + 1] >> ]

\* The oracle answered a JSON object with these members.
Object(e, m, v, q, emotions, keywords) ==
  [ outcome |-> "object", engagement_score |-> e, emotion_score |-> m,
    viral_potential |-> v, quotability |-> q, emotions |-> emotions,
    keywords |-> keywords ]

\* The oracle gave no JSON object: generate_content raised ("raised": not
\* reachable, timed out, refused), response.text is empty ("empty"), or
\* json.loads rejects it or gives something that is no object ("malformed").
NoObject(outcome) ==
  [ outcome |-> outcome, engagement_score |-> Missing, emotion_score |-> Missing,
    viral_potential |-> Missing, quotability |-> Missing, emotions |-> NoList,
    keywords |-> NoList ]

\* What the scoring oracle answers for one segment of a job.
OracleResponses ==
  { Object(Number(120), Number(90), Number(90), Number(90), List(Labels(2)),
           List(Labels(3))),
    Object(Number(60), Number(50), Number(60), Number(50), List(Labels(2)),
           List(Labels(3))),
    NoObject("raised") }

\* ------------------------------------------------------------ helpers

None == <<>>

Min(a, b) == IF a <= b THEN a ELSE b

Max(a, b) == IF a >= b THEN a ELSE b

\* Python truthiness of an optional string: None and "" are falsy.
Truthy(x) == x # None /\ x[1] # ""

\* ProcessingStatus, in the order of its declaration.
StatusOrder ==
  << "pending", "downloading", "transcribing", "analyzing", "editing",
     "uploading", "completed" >>

ProcessingStatus == { StatusOrder[i] : i \in 1..Len(StatusOrder) } \cup {"failed"}

\* A fresh VideoJob row: the column defaults.
NewJob ==
  [ status |-> "pending", progress |-> 0, error_message |-> None,
    title |-> None, duration |-> None, video_path |-> None,
    audio_path |-> None, transcript_path |-> None, user_email |-> << "owner" >> ]

\* seq[:n]
Take(seq, n) == SubSeq(seq, 1, Min(n, Len(seq)))

\* The members of a list.
Range(seq) == { seq[k] : k \in 1..Len(seq) }

\* ------------------------------------------------------------- state

VARIABLES
  video,       \* the video behind the job's url
  db,          \* the database: what the last successful commit left
  sess,        \* db.session: the job, segments and shorts as the worker holds them
  pc,          \* where process_video stands
  exc,         \* str(e) of the exception the except clause of process_video caught
  engaging_segments,  \* the list _analyze_content returns, as indices into sess.segments
  runs,        \* invocations of process_video so far
  calls,       \* history: the stages whose collaborator this run has invoked
  workFailed,  \* history: <<stage, str(e)>> of the stage this run saw raise, or None
  scored,      \* history: the scoring loop of _analyze_content ran to its end
  candidates,  \* history: engaging_segments when the scoring loop ended
  tier,        \* history: the tier that made the list (1 strict, 2 relaxed, 3 duration), 0 before
  clips,       \* history: what _generate_shorts did in this run, or None
  api_key,     \* os.environ.get("GEMINI_API_KEY")
  analyzer,    \* the GeminiAnalyzer: "none" before __init__, "ready", or "raised"
  input_text,  \* the text handed to the analyzer
  oracle,      \* history: what the oracle answered to analyze_segment(input_text)
  returned,    \* what analyze_segment(input_text) returned
  heuristic,   \* what _fallback_analysis(input_text) returned
  creds,       \* the youtube_credentials table: user_email -> record or None
  now,         \* datetime.now(timezone.utc)
  upc,         \* where upload_short stands
  short_id,    \* the short_id of the current upload_short
  user_email,  \* the user_email of the current upload_short
  uploads,     \* invocations of upload_short so far
  call,        \* history: what the current upload_short has done
  short_tags,  \* short.tags of the clip whose upload metadata is prepared
  defaults,    \* the YouTubeCredentials row of short.job.user_email, or None
  body_tags,   \* body['snippet']['tags'] as _prepare_upload_metadata returned it
  running,     \* the worker that is taking steps: 1 or 2
  peer         \* the other worker and its job while this one takes steps, or None

pipelineVars ==
  << video, db, sess, pc, exc, engaging_segments, runs, calls, workFailed, scored,
     candidates, tier, clips >>

scoringVars == << api_key, analyzer, input_text, oracle, returned, heuristic >>

uploadVars == << creds, now, upc, short_id, user_email, uploads, call >>

metadataVars == << short_tags, defaults, body_tags >>

concurrencyVars == << running, peer >>

\* What the steps of process_video leave alone.
otherVars == << scoringVars, uploadVars, metadataVars, running >>

vars == << pipelineVars, scoringVars, uploadVars, metadataVars, concurrencyVars >>

\* An upload_short that has done nothing yet.
NoCall ==
  [ refreshes |-> 0, refresh_failed |-> FALSE, transported |-> FALSE,
    checked |-> None, credential |-> None ]

\* No upload_short is under way and none has been.
UploaderAtRest ==
  /\ creds = [ e \in {} |-> None ]
  /\ now = 0
  /\ upc = "idle"
  /\ short_id = 0
  /\ user_email = ""
  /\ uploads = 0
  /\ call = NoCall

\* One worker, no other.
Alone ==
  /\ running = 1
  /\ peer = None

\* No upload metadata is being prepared.
MetadataAtRest ==
  /\ short_tags = None
  /\ defaults = None
  /\ body_tags = None

\* The analyzer as a VideoProcessor holds it while process_video runs.
AnalyzerOfProcessor ==
  /\ api_key = << "key" >>
  /\ analyzer = "ready"
  /\ input_text = <<>>
  /\ oracle = None
  /\ returned = None
  /\ heuristic = None

\* No process_video has run on the job yet.
PipelineAtRest ==
  /\ db = [ job |-> NewJob, segments |-> <<>>, shorts |-> <<>> ]
  /\ sess = db
  /\ pc = "idle"
  /\ exc = ""
  /\ engaging_segments = <<>>
  /\ runs = 0
  /\ calls = {}
  /\ workFailed = None
  /\ scored = FALSE
  /\ candidates = <<>>
  /\ tier = 0
  /\ clips = None

Init ==
  /\ video \in Videos
  /\ AnalyzerOfProcessor
  /\ UploaderAtRest
  /\ MetadataAtRest
  /\ PipelineAtRest
  /\ Alone

\* ----------------------------------------------------- the session

\* db.session.commit() that succeeds: the database holds what the session s held.
Committed(s) == s

\* db.session.commit() that raises: the transaction is rolled back, pending rows
\* are expunged and every object expires to what the database holds.
RolledBack == db

\* OthersAfterCommit as it would be if the workers shared one session: the
\* commit persists what the other worker has pending.
OthersAfterCommitShared(other) ==
  IF other = None THEN other ELSE << [ other[1] EXCEPT !.db = other[1].sess ] >>

\* What a commit of the running worker's session does to the other worker and
\* its job: nothing.  Each worker has a session of its own, which holds rows
\* of its own job only (lines 32, 194, 209, 245, 258, 290).
OthersAfterCommit(other) == other

\* What a commit of the running worker that raises, and the rollback that
\* follows, do to the other worker and its job: nothing.
OthersAfterRollback(other) == other

\* SetStatus as it would be if progress were never taken back.
SetStatusKeepingProgress(j, status, progress, error_message) ==
  [ j EXCEPT !.status = status,
             !.progress = Max(@, progress),
             !.error_message = IF Truthy(error_message) THEN error_message ELSE @ ]

\* SetStatus as it would be if a failed job were cleaned of its files.
SetStatusCleaning(j, status, progress, error_message) ==
  [ j EXCEPT !.status = status,
             !.progress = progress,
             !.error_message = IF Truthy(error_message) THEN error_message ELSE @,
             !.video_path = IF status = "failed" THEN None ELSE @,
             !.audio_path = IF status = "failed" THEN None ELSE @ ]

\* _update_job_status, lines 67-70: the assignments to the job object.
SetStatus(j, status, progress, error_message) ==
  [ j EXCEPT !.status = status,
             !.progress = progress,
             !.error_message = IF Truthy(error_message) THEN error_message ELSE @ ]

\* StatusCommitted as it would be without the commit of line 71.
StatusNotCommitted(status, progress, error_message) ==
  /\ sess' = [ sess EXCEPT !.job = SetStatus(@, status, progress, error_message) ]
  /\ db' = db
  /\ peer' = peer

\* _update_job_status whose commit succeeds.
StatusCommitted(status, progress, error_message) ==
  LET s == [ sess EXCEPT !.job = SetStatus(@, status, progress, error_message) ]
  IN  /\ sess' = s
      /\ db' = Committed(s)
      /\ peer' = OthersAfterCommit(peer)

\* _update_job_status whose commit raises.
StatusRolledBack ==
  /\ sess' = RolledBack
  /\ db' = db
  /\ peer' = OthersAfterRollback(peer)

\* An exception of description d reaches the except clause of process_video.
Caught(d) ==
  /\ exc' = d
  /\ pc' = "handler"

\* A stage's work raised d: the exception reaches the except clause.
Raise(stage, d) ==
  /\ Caught(d)
  /\ workFailed' = << stage, d >>

\* A step of the try block of process_video between two stages:
\* _update_job_status(job, status, progress), then on to `next`.
UpdateJobStatus(at, status, progress, next) ==
  /\ pc = at
  /\ \/ /\ StatusCommitted(status, progress, None)
        /\ pc' = next
        /\ exc' = exc
     \/ /\ StatusRolledBack
        /\ \E d \in FailureDescriptions : Caught(d)
  /\ UNCHANGED << video, engaging_segments, runs, calls, workFailed, scored, candidates, tier,
                  clips >>
  /\ UNCHANGED otherVars

\* ------------------------------------------------ process_video

\* How many rows _transcribe_video adds for a file of duration d:
\* len(range(0, int(d), 30)).
SegmentLength == 30

SegmentCount(d) == (d + SegmentLength - 1) \div SegmentLength

\* process_video is entered for the job: the job is loaded, and step 1 starts
\* with _update_job_status(job, DOWNLOADING, 10).  There is no test of job.status.
\* Of two interleaved workers each one invokes process_video once.
StartRun ==
  /\ pc = "idle"
  /\ runs < (IF peer = None THEN MaxRuns ELSE 1)
  /\ runs > 0 =>
       Len(db.segments) + SegmentCount(video.probe_duration) <= MaxSegments
  /\ runs' = runs + 1
  /\ calls' = {}
  /\ workFailed' = None
  /\ scored' = FALSE
  /\ candidates' = <<>>
  /\ tier' = 0
  /\ clips' = None
  /\ engaging_segments' = <<>>
  /\ \/ /\ StatusCommitted("downloading", 10, None)
        /\ pc' = "download"
        /\ exc' = exc
     \/ /\ StatusRolledBack
        /\ \E d \in FailureDescriptions : Caught(d)
  /\ UNCHANGED video
  /\ UNCHANGED otherVars

\* _download_video.
Download ==
  /\ pc = "download"
  /\ calls' = calls \cup {"download"}
  /\ LET s1 == [ sess EXCEPT !.job.title = << "Title" >>,
                             !.job.duration = << video.info_duration >> ]
         s2 == [ s1 EXCEPT !.job.video_path = << "uploads/video.mp4" >> ]
         Wrapped(d) == "Failed to download video: " \o d
     IN
     \/ \* extract_info raises (line 107)
        /\ \E d \in FailureDescriptions : Raise("download", Wrapped(d))
        /\ UNCHANGED << db, sess, peer >>
     \/ \* the commit of title and duration raises (line 119)
        /\ \E d \in FailureDescriptions : Raise("download", Wrapped(d))
        /\ sess' = RolledBack
        /\ db' = db
        /\ peer' = OthersAfterRollback(peer)
     \/ \* ydl.download raises (line 122), or no file is found (line 138)
        /\ \E d \in FailureDescriptions \cup {"Downloaded video file not found"} :
             Raise("download", Wrapped(d))
        /\ sess' = s1
        /\ db' = Committed(s1)
        /\ peer' = OthersAfterCommit(peer)
     \/ \* the commit of video_path raises (line 134)
        /\ \E d \in FailureDescriptions : Raise("download", Wrapped(d))
        /\ db' = Committed(s1)
        /\ sess' = db'
        /\ peer' = OthersAfterRollback(OthersAfterCommit(peer))
     \/ \* the file is there and its path is committed
        /\ sess' = s2
        /\ db' = Committed(s2)
        /\ peer' = OthersAfterCommit(OthersAfterCommit(peer))
        /\ pc' = "upd_transcribing"
        /\ UNCHANGED << exc, workFailed >>
  /\ UNCHANGED << video, engaging_segments, runs, scored, candidates, tier, clips >>
  /\ UNCHANGED otherVars

UpdateTranscribing == UpdateJobStatus("upd_transcribing", "transcribing", 30, "transcribe")

RECURSIVE Str(_)
\* str(n) of an int n >= 0.
Str(n) ==
  IF n < 10 THEN << Digits[n + 1] >>
  ELSE Str(n \div 10) \o << Digits[(n % 10) + 1] >>

\* str(x) of a float x that holds the whole number n.
FloatStr(n) == Str(n) \o << ".", "0" >>

\* The placeholder text of line 171 for the segment from i to e; e is the int
\* i + segment_length, or the float `duration` when that is the smaller one.
SegmentText(i, e, float) ==
  << "A", "u", "d", "i", "o", " ", "s", "e", "g", "m", "e", "n", "t", " ", "f", "r", "o", "m", " " >>
    \o Str(i) \o << "s", " ", "t", "o", " " >>
    \o (IF float THEN FloatStr(e) ELSE Str(e)) \o << "s" >>

\* str.isspace, for the characters of the model's texts.
IsSpace(c) == c \in { " ", "\t", "\n" }

\* text.strip()
Strip(text) ==
  LET inked == { k \in 1..Len(text) : ~IsSpace(text[k]) }
  IN  IF inked = {} THEN <<>>
      ELSE SubSeq(text, CHOOSE k \in inked : \A l \in inked : k <= l,
                        CHOOSE k \in inked : \A l \in inked : k >= l)

\* len(text.strip())
CharCount(text) == Len(Strip(text))

RECURSIVE Split(_)
\* text.split(): the maximal runs of characters that are not white space.
Split(text) ==
  IF text = <<>> THEN <<>>
  ELSE IF IsSpace(Head(text)) THEN Split(Tail(text))
  ELSE LET n == CHOOSE k \in 1..Len(text) :
                  /\ \A l \in 1..k : ~IsSpace(text[l])
                  /\ k = Len(text) \/ IsSpace(text[k + 1])
       IN  << SubSeq(text, 1, n) >> \o Split(SubSeq(text, n + 1, Len(text)))

\* len(text.split())
WordCount(text) == Len(Split(text))

\* The dicts of lines 166-172 for a file of duration d.
TimeSegments(d) ==
  [ k \in 1..SegmentCount(d) |->
      LET i == (k - 1) * SegmentLength
          whole == i + SegmentLength <= d
          e == IF whole THEN i + SegmentLength ELSE d
      IN  [ start |-> i, end |-> e, text |-> SegmentText(i, e, ~whole) ] ]

\* A TranscriptSegment row as lines 193-197 fill it; the scores are the column defaults.
NewSegment(seg) ==
  [ start_time |-> seg.start, end_time |-> seg.end, text |-> Strip(seg.text),
    engagement_score |-> 0, emotion_score |-> 0, viral_potential |-> 0,
    quotability |-> 0, overall_score |-> 0 ]

\* Lines 191-198: only the segments whose text is longer than 10 characters.
MeaningfulSegments(segments) ==
  LET kept == SelectSeq(segments, LAMBDA seg : CharCount(seg.text) > 10)
  IN  [ k \in 1..Len(kept) |-> NewSegment(kept[k]) ]

\* _transcribe_video.
Transcribe ==
  /\ pc = "transcribe"
  /\ calls' = calls \cup {"transcribe"}
  /\ LET s1 == [ sess EXCEPT !.job.audio_path = << "temp/audio.wav" >>,
                             !.job.transcript_path = << "uploads/transcript.json" >> ]
         s2 == [ s1 EXCEPT !.segments =
                   @ \o MeaningfulSegments(TimeSegments(video.probe_duration)) ]
         Wrapped(d) == "Failed to transcribe video: " \o d
     IN
     \/ \* ffmpeg, ffprobe or the transcript file raise (lines 156-184)
        /\ \E d \in FailureDescriptions : Raise("transcribe", Wrapped(d))
        /\ UNCHANGED << db, sess, peer >>
     \/ \* the commit of the paths raises (line 188)
        /\ \E d \in FailureDescriptions : Raise("transcribe", Wrapped(d))
        /\ sess' = RolledBack
        /\ db' = db
        /\ peer' = OthersAfterRollback(peer)
     \/ \* the commit of the segment rows raises (line 200)
        /\ \E d \in FailureDescriptions : Raise("transcribe", Wrapped(d))
        /\ db' = Committed(s1)
        /\ sess' = db'
        /\ peer' = OthersAfterRollback(OthersAfterCommit(peer))
     \/ \* the rows are committed
        /\ sess' = s2
        /\ db' = Committed(s2)
        /\ peer' = OthersAfterCommit(OthersAfterCommit(peer))
        /\ pc' = "upd_analyzing"
        /\ UNCHANGED << exc, workFailed >>
  /\ UNCHANGED << video, engaging_segments, runs, scored, candidates, tier, clips >>
  /\ UNCHANGED otherVars

UpdateAnalyzing == UpdateJobStatus("upd_analyzing", "analyzing", 50, "analyze")

\* ------------------------------------------------ GeminiAnalyzer

\* max(0.0, min(1.0, x)), in hundredths.
Clamp(x) == Max(0, Min(100, x))

engagement_keywords ==
  { << "a", "m", "a", "z", "i", "n", "g" >>,
    << "i", "n", "c", "r", "e", "d", "i", "b", "l", "e" >>,
    << "w", "o", "w" >>,
    << "s", "h", "o", "c", "k", "i", "n", "g" >>,
    << "u", "n", "b", "e", "l", "i", "e", "v", "a", "b", "l", "e" >>,
    << "f", "u", "n", "n", "y" >>,
    << "h", "i", "l", "a", "r", "i", "o", "u", "s" >> }

emotion_keywords ==
  { << "l", "o", "v", "e" >>,
    << "h", "a", "t", "e" >>,
    << "e", "x", "c", "i", "t", "e", "d" >>,
    << "s", "u", "r", "p", "r", "i", "s", "e", "d" >>,
    << "h", "a", "p", "p", "y" >>,
    << "a", "n", "g", "r", "y" >>,
    << "s", "c", "a", "r", "e", "d" >> }

viral_keywords ==
  { << "v", "i", "r", "a", "l" >>,
    << "t", "r", "e", "n", "d", "i", "n", "g" >>,
    << "s", "h", "a", "r", "e" >>,
    << "l", "i", "k", "e" >>,
    << "s", "u", "b", "s", "c", "r", "i", "b", "e" >>,
    << "f", "o", "l", "l", "o", "w" >> }

UpperCase ==
  << "A", "B", "C", "D", "E", "F", "G", "H", "I", "J", "K", "L", "M" >>
    \o << "N", "O", "P", "Q", "R", "S", "T", "U", "V", "W", "X", "Y", "Z" >>

LowerCase ==
  << "a", "b", "c", "d", "e", "f", "g", "h", "i", "j", "k", "l", "m" >>
    \o << "n", "o", "p", "q", "r", "s", "t", "u", "v", "w", "x", "y", "z" >>

\* The small letter of every capital.
LowerOf ==
  [ c \in { UpperCase[k] : k \in 1..Len(UpperCase) } |->
      LowerCase[CHOOSE k \in 1..Len(UpperCase) : UpperCase[k] = c] ]

\* c.lower() for one character.
Lower(c) == IF c \in DOMAIN LowerOf THEN LowerOf[c] ELSE c

\* TextLower as it would be if the text were matched as it is written.
TextNotLowered(text) == text

\* text.lower(), line 98.
TextLower(text) == [ k \in 1..Len(text) |-> Lower(text[k]) ]

\* `keyword in text_lower`: the keyword is a substring of the text.
OccursIn(keyword, text_lower) ==
  \E k \in 1..(Len(text_lower) - Len(keyword) + 1) :
    SubSeq(text_lower, k, k + Len(keyword) - 1) = keyword

\* sum(1 for word in keywords if word in text_lower)
KeywordHits(keywords, text_lower) ==
  Cardinality({ keyword \in keywords : OccursIn(keyword, text_lower) })

\* _fallback_analysis as it would be without the floors max(0.4, ...) and
\* max(0.3, ...) of lines 110-112.
FallbackAnalysisWithoutFloor(text) ==
  LET text_lower == TextLower(text)
  IN  [ engagement_score |->
          Min(100, KeywordHits(engagement_keywords, text_lower) * 20),
        emotion_score |->
          Min(100, KeywordHits(emotion_keywords, text_lower) * 20),
        viral_potential |->
          Min(100, KeywordHits(viral_keywords, text_lower) * 30),
        quotability |-> Min(100, WordCount(text) * 5),
        emotions |-> << << "g", "e", "n", "e", "r", "a", "l" >> >>,
        keywords |-> Take(Split(text), 5) ]

\* _fallback_analysis, lines 96-122.
FallbackAnalysis(text) ==
  LET text_lower == TextLower(text)
  IN  [ engagement_score |->
          Max(40, Min(100, KeywordHits(engagement_keywords, text_lower) * 20)),
        emotion_score |->
          Max(30, Min(100, KeywordHits(emotion_keywords, text_lower) * 20)),
        viral_potential |->
          Max(30, Min(100, KeywordHits(viral_keywords, text_lower) * 30)),
        quotability |-> Min(100, WordCount(text) * 5),
        emotions |-> << << "g", "e", "n", "e", "r", "a", "l" >> >>,
        keywords |-> Take(Split(text), 5) ]

\* Lines 77-86 run to the return: there is a JSON object, min() and max()
\* accept the four members and the two lists can be sliced.
Usable(response) ==
  /\ response.outcome = "object"
  /\ \A member \in { response.engagement_score, response.emotion_score,
                      response.viral_potential, response.quotability } :
       member.kind \in { "number", "missing" }
  /\ response.emotions.kind \in { "list", "missing" }
  /\ response.keywords.kind \in { "list", "missing" }

\* result.get(name, 0.5)
GetNumber(member) == IF member.kind = "missing" THEN 50 ELSE member.value

\* result.get(name, [])
GetList(member) == IF member.kind = "missing" THEN <<>> ELSE member.items

\* analyze_segment: the oracle's numbers clamped and its lists cut (lines
\* 79-87), or the fallback when anything of lines 65-89 raised (line 94).
AnalyzeSegment(text, response) ==
  IF Usable(response)
  THEN [ engagement_score |-> Clamp(GetNumber(response.engagement_score)),
         emotion_score    |-> Clamp(GetNumber(response.emotion_score)),
         viral_potential  |-> Clamp(GetNumber(response.viral_potential)),
         quotability      |-> Clamp(GetNumber(response.quotability)),
         emotions         |-> Take(GetList(response.emotions), 5),
         keywords         |-> Take(GetList(response.keywords), 10) ]
  ELSE FallbackAnalysis(text)

\* ---------------------------------------------- _analyze_content

\* Lines 221-226, in thousandths.
OverallScore(a) ==
  a.engagement_score * 3 + a.emotion_score * 2 + a.viral_potential * 3
    + a.quotability * 2

\* Lines 217-226: the segment with the scores of `analysis`.
ScoredSegment(seg, analysis) ==
  [ seg EXCEPT !.engagement_score = analysis.engagement_score,
               !.emotion_score = analysis.emotion_score,
               !.viral_potential = analysis.viral_potential,
               !.quotability = analysis.quotability,
               !.overall_score = OverallScore(analysis) ]

Duration(seg) == seg.end_time - seg.start_time

\* Lines 233-235.
StrictFilter(seg) ==
  /\ seg.overall_score > 400
  /\ 10 <= Duration(seg) /\ Duration(seg) <= 60
  /\ WordCount(seg.text) >= 5

\* Line 248.
RelaxedFilter(seg) ==
  /\ 10 <= Duration(seg) /\ Duration(seg) <= 60
  /\ WordCount(seg.text) >= 3

\* Line 262.
DurationFilter(seg) == 15 <= Duration(seg) /\ Duration(seg) <= 60

\* The indices of the rows of segs, in the order the query
\* TranscriptSegment.query.filter_by(job_id=job.id).all() gives them.
Indices(segs) == [ i \in 1..Len(segs) |-> i ]

\* Lines 212-236: the rows appended to engaging_segments by the scoring loop.
StrictIndices(segs) ==
  SelectSeq(Indices(segs), LAMBDA i : StrictFilter(segs[i]))

\* Lines 246-248: the rows the relaxed scan would take.
RelaxedIndices(segs) ==
  SelectSeq(Indices(segs), LAMBDA i : RelaxedFilter(segs[i]))

\* Lines 260-264: the rows the except clause takes.
DurationIndices(segs) ==
  SelectSeq(Indices(segs), LAMBDA i : DurationFilter(segs[i]))

RECURSIVE InsertByScore(_, _, _)
\* i put into `sorted` behind every row whose score is at least its own.
InsertByScore(sorted, i, segs) ==
  IF sorted = <<>> THEN << i >>
  ELSE IF segs[Head(sorted)].overall_score >= segs[i].overall_score
       THEN << Head(sorted) >> \o InsertByScore(Tail(sorted), i, segs)
       ELSE << i >> \o sorted

\* SortByScore as it would be without the sort of line 241.
SortByScoreForgotten(idx, segs) == idx

RECURSIVE SortByScore(_, _)
\* Line 241: list.sort(key=overall_score, reverse=True), which is stable.
SortByScore(idx, segs) ==
  IF idx = <<>> THEN <<>>
  ELSE InsertByScore(SortByScore(SubSeq(idx, 1, Len(idx) - 1), segs),
                     idx[Len(idx)], segs)

\* RelaxedPick as it would be without the break of line 251.
RelaxedPickWithoutBreak(segs) ==
  LET idx == RelaxedIndices(segs)
  IN  [ segments |-> [ i \in 1..Len(segs) |->
                         IF RelaxedFilter(segs[i])
                         THEN [ segs[i] EXCEPT !.overall_score = 300 ]
                         ELSE segs[i] ],
        picked   |-> idx ]

\* Lines 244-251: the first row that passes the relaxed test, its score set to 0.3.
RelaxedPick(segs) ==
  LET idx == RelaxedIndices(segs)
  IN  IF idx = <<>>
      THEN [ segments |-> segs, picked |-> <<>> ]
      ELSE [ segments |-> [ segs EXCEPT ![Head(idx)].overall_score = 300 ],
             picked   |-> << Head(idx) >> ]

\* Lines 258-265: every row that passes the duration test gets score 0.5; the
\* first three are returned.
DurationFallback(segs) ==
  LET idx == DurationIndices(segs)
  IN  [ segments |-> [ i \in 1..Len(segs) |->
                         IF DurationFilter(segs[i])
                         THEN [ segs[i] EXCEPT !.overall_score = 500 ]
                         ELSE segs[i] ],
        picked   |-> Take(idx, 3) ]

\* Line 253: the top of the sorted candidates.
TopSegments(sorted) == Take(sorted, 5)

\* The except clause of _analyze_content, entered with the session holding s.
AnalyzeExcept(s) ==
  \/ \* the query of line 258 answers
     LET r == DurationFallback(s.segments)
     IN  /\ sess' = [ s EXCEPT !.segments = r.segments ]
         /\ engaging_segments' = r.picked
         /\ tier' = 3
         /\ pc' = "upd_editing"
         /\ UNCHANGED << exc, workFailed >>
  \/ \* the query of line 258 raises: _analyze_content raises
     /\ \E d \in FailureDescriptions : Raise("analyze", d)
     /\ sess' = s
     /\ UNCHANGED << engaging_segments, tier >>

\* _analyze_content.
Analyze ==
  /\ pc = "analyze"
  /\ calls' = calls \cup {"analyze"}
  /\ \/ \* the query of line 209 raises
        /\ db' = db
        /\ peer' = peer
        /\ UNCHANGED << scored, candidates >>
        /\ AnalyzeExcept(sess)
     \/ \E responses \in [ 1..Len(sess.segments) -> OracleResponses ] :
          LET segs == [ i \in 1..Len(sess.segments) |->
                          ScoredSegment(sess.segments[i],
                            AnalyzeSegment(sess.segments[i].text, responses[i])) ]
              found == StrictIndices(segs)
              s1 == [ sess EXCEPT !.segments = segs ]
          IN  /\ scored' = TRUE
              /\ candidates' = found
              /\ \/ \* the commit of line 238 raises
                    /\ db' = db
                    /\ peer' = OthersAfterRollback(peer)
                    /\ AnalyzeExcept(RolledBack)
                 \/ \* committed, and the strict filter found rows
                    /\ found # <<>>
                    /\ db' = Committed(s1)
                    /\ peer' = OthersAfterCommit(peer)
                    /\ sess' = s1
                    /\ engaging_segments' = TopSegments(SortByScore(found, segs))
                    /\ tier' = 1
                    /\ pc' = "upd_editing"
                    /\ UNCHANGED << exc, workFailed >>
                 \/ \* committed, no row found: the relaxed scan of lines 245-251
                    /\ found = <<>>
                    /\ db' = Committed(s1)
                    /\ peer' = OthersAfterCommit(peer)
                    /\ LET r == RelaxedPick(segs)
                       IN  /\ sess' = [ s1 EXCEPT !.segments = r.segments ]
                           /\ engaging_segments' = TopSegments(r.picked)
                    /\ tier' = 2
                    /\ pc' = "upd_editing"
                    /\ UNCHANGED << exc, workFailed >>
                 \/ \* committed, no row found, and the query of line 245 raises
                    /\ found = <<>>
                    /\ db' = Committed(s1)
                    /\ peer' = OthersAfterCommit(peer)
                    /\ AnalyzeExcept(s1)
  /\ UNCHANGED << video, runs, clips >>
  /\ UNCHANGED otherVars

UpdateEditing == UpdateJobStatus("upd_editing", "editing", 70, "edit")

\* ---------------------------------------------- _generate_shorts

\* NewShort as it would be if the clip took the segment's engagement score.
NewShortRawScore(seg, num) ==
  [ start_time |-> seg.start_time, end_time |-> seg.end_time,
    duration |-> seg.end_time - seg.start_time,
    output_path |-> num,
    engagement_score |-> seg.engagement_score,
    viral_potential |-> seg.viral_potential,
    upload_status |-> "not_uploaded", youtube_video_id |-> None,
    youtube_url |-> None, upload_error |-> None ]

\* Lines 289-301: the VideoShort row of the segment, made as short number num.
NewShort(seg, num) ==
  [ start_time |-> seg.start_time, end_time |-> seg.end_time,
    duration |-> seg.end_time - seg.start_time,
    output_path |-> num,
    engagement_score |-> seg.overall_score,
    viral_potential |-> seg.viral_potential,
    upload_status |-> "not_uploaded", youtube_video_id |-> None,
    youtube_url |-> None, upload_error |-> None ]

\* The rows as they would be if the first failure ended the loop.
NewShortsUntilFailure(made) ==
  LET pos == SelectSeq([ k \in 1..Len(engaging_segments) |-> k ],
                       LAMBDA k : \A l \in 1..k : l \in made)
  IN  [ j \in 1..Len(pos) |-> NewShort(sess.segments[engaging_segments[pos[j]]], pos[j]) ]

\* The rows added for the positions of `engaging_segments` in `made`, in their order.
NewShorts(made) ==
  LET pos == SelectSeq([ k \in 1..Len(engaging_segments) |-> k ], LAMBDA k : k \in made)
  IN  [ j \in 1..Len(pos) |-> NewShort(sess.segments[engaging_segments[pos[j]]], pos[j]) ]

\* _generate_shorts: metadata or ffmpeg fail for the positions outside `made`
\* (lines 306-308), then one commit (line 310).
GenerateShorts ==
  /\ pc = "edit"
  /\ calls' = calls \cup {"edit"}
  /\ \E made \in SUBSET (1..Len(engaging_segments)) :
       LET s1 == [ sess EXCEPT !.shorts = @ \o NewShorts(made) ]
       IN  \/ /\ sess' = s1
              /\ db' = Committed(s1)
              /\ peer' = OthersAfterCommit(peer)
              /\ clips' = << [ made |-> made, before |-> Len(sess.shorts),
                               committed |-> TRUE ] >>
              /\ pc' = "upd_completed"
              /\ UNCHANGED << exc, workFailed >>
           \/ /\ sess' = RolledBack
              /\ db' = db
              /\ peer' = OthersAfterRollback(peer)
              /\ clips' = << [ made |-> made, before |-> Len(sess.shorts),
                               committed |-> FALSE ] >>
              /\ \E d \in FailureDescriptions :
                   Raise("edit", "Failed to generate shorts: " \o d)
  /\ UNCHANGED << video, engaging_segments, runs, scored, candidates, tier >>
  /\ UNCHANGED otherVars

UpdateCompleted == UpdateJobStatus("upd_completed", "completed", 100, "idle")

\* The except clause of process_video (lines 61-63):
\* _update_job_status(job, FAILED, 0, str(e)); if its commit raises, the
\* exception leaves process_video.  The app context ends and the session with it.
HandleFailure ==
  /\ pc = "handler"
  /\ \/ StatusCommitted("failed", 0, << exc >>)
     \/ StatusRolledBack
  /\ pc' = "idle"
  /\ exc' = ""
  /\ UNCHANGED << video, engaging_segments, runs, calls, workFailed, scored, candidates, tier,
                  clips >>
  /\ UNCHANGED otherVars

Next ==
  \/ StartRun
  \/ Download
  \/ UpdateTranscribing
  \/ Transcribe
  \/ UpdateAnalyzing
  \/ Analyze
  \/ UpdateEditing
  \/ GenerateShorts
  \/ UpdateCompleted
  \/ HandleFailure

Spec == Init /\ [][Next]_vars

\* ------------------------------------------- the analyzer on its own

\* Pieces of text: keywords in capitals and in small letters, a keyword inside
\* a longer word, and fourteen words of one letter.
Phrases ==
  <<
    << "A", "m", "a", "z", "i", "n", "g", " ", "i", "n", "c", "r", "e", "d",
       "i", "b", "l", "e", " ", "W", "O", "W" >>,
    << "s", "h", "o", "c", "k", "i", "n", "g", " ", "u", "n", "b", "e", "l",
       "i", "e", "v", "a", "b", "l", "e", " ", "f", "u", "n", "n", "y", " ",
       "h", "i", "l", "a", "r", "i", "o", "u", "s" >>,
    << "I", " ", "l", "o", "v", "e", " ", "a", "n", "d", " ", "h", "a", "t",
       "e" >>,
    << "e", "x", "c", "i", "t", "e", "d", " ", "s", "u", "r", "p", "r", "i",
       "s", "e", "d", " ", "h", "a", "p", "p", "y", " ", "a", "n", "g", "r",
       "y", " ", "s", "c", "a", "r", "e", "d" >>,
    << "u", "n", "l", "i", "k", "e", "l", "y" >>,
    << "V", "i", "r", "a", "l", " ", "t", "r", "e", "n", "d", "i", "n", "g",
       " ", "S", "H", "A", "R", "E", " ", "s", "u", "b", "s", "c", "r", "i",
       "b", "e", " ", "f", "o", "l", "l", "o", "w" >>,
    << "a", " ", "b", " ", "c", " ", "d", " ", "e", " ", "f", " ", "g", " ",
       "h", " ", "i", " ", "j", " ", "k", " ", "l", " ", "m", " ", "n" >>
  >>

RECURSIVE Joined(_, _)
\* The phrases numbered in `chosen`, from phrase k on, one blank between them.
Joined(chosen, k) ==
  IF k > Len(Phrases) THEN <<>>
  ELSE IF k \notin chosen THEN Joined(chosen, k + 1)
  ELSE LET rest == Joined(chosen, k + 1)
       IN  IF rest = <<>> THEN Phrases[k] ELSE Phrases[k] \o << " " >> \o rest

\* The texts the analyzer is asked about.
Texts == { Joined(chosen, 1) : chosen \in SUBSET (1..Len(Phrases)) }

\* What the oracle may answer to one analyze_segment.
OracleOutcomes ==
  { NoObject(outcome) : outcome \in { "raised", "empty", "malformed" } }
  \cup
  { Object(e, Number(50), Number(90), q, emotions, keywords) :
      e \in { Number(0 - 20), Number(60), Number(150), Missing, NotANumber },
      q \in { Number(100), Missing },
      emotions \in { List(Labels(7)), NoList, NotAList },
      keywords \in { List(Labels(12)), NoList } }

\* A process is about to make a GeminiAnalyzer and ask it about a text.
ScoringInit ==
  /\ video = CHOOSE v \in Videos : v.probe_duration = 12
  /\ PipelineAtRest
  /\ UploaderAtRest
  /\ MetadataAtRest
  /\ Alone
  /\ api_key \in { None, << "" >>, << "key" >> }
  /\ analyzer = "none"
  /\ input_text \in Texts
  /\ oracle = None
  /\ returned = None
  /\ heuristic = None

\* GeminiAnalyzer.__init__, lines 24-38.
Construct ==
  /\ analyzer = "none"
  /\ \/ \* genai.Client(api_key=api_key) answers
        /\ Truthy(api_key)
        /\ analyzer' = "ready"
     \/ \* genai.Client raises (line 36)
        /\ Truthy(api_key)
        /\ analyzer' = "raised"
     \/ \* no key (line 38)
        /\ ~Truthy(api_key)
        /\ analyzer' = "raised"
  /\ UNCHANGED << api_key, input_text, oracle, returned, heuristic >>
  /\ UNCHANGED << pipelineVars, uploadVars, metadataVars, concurrencyVars >>

\* analyze_segment(input_text) on the analyzer, as its one call.
AnalyzeSegmentCall ==
  /\ analyzer = "ready"
  /\ returned = None /\ heuristic = None
  /\ \E r \in OracleOutcomes :
       /\ oracle' = << r >>
       /\ returned' = << AnalyzeSegment(input_text, r) >>
  /\ UNCHANGED << api_key, analyzer, input_text, heuristic >>
  /\ UNCHANGED << pipelineVars, uploadVars, metadataVars, concurrencyVars >>

\* _fallback_analysis(input_text) on the analyzer, as its one call.
FallbackAnalysisCall ==
  /\ analyzer = "ready"
  /\ returned = None /\ heuristic = None
  /\ heuristic' = << FallbackAnalysis(input_text) >>
  /\ UNCHANGED << api_key, analyzer, input_text, oracle, returned >>
  /\ UNCHANGED << pipelineVars, uploadVars, metadataVars, concurrencyVars >>

ScoringNext ==
  \/ Construct
  \/ AnalyzeSegmentCall
  \/ FallbackAnalysisCall

ScoringSpec == ScoringInit /\ [][ScoringNext]_vars

\* ------------------------------------------------ YouTubeUploader

\* upload_short is invoked at most MaxUploads times.
MaxUploads == 2

\* The clock stops at MaxTime.
MaxTime == 2

\* The accounts: the one of job.user_email and another one.
Emails == { "owner", "other" }

\* UploadStatus, in the order of its declaration.
UploadStatus == { "not_uploaded", "pending", "uploading", "uploaded", "failed" }

\* The job whose clips are uploaded: a job of 42 seconds that process_video
\* completed, its two segments scored by the oracle and both made into clips.
UploadedJob ==
  LET segs == MeaningfulSegments(TimeSegments(42))
      scores == AnalyzeSegment(<<>>, CHOOSE r \in OracleResponses :
                  r.outcome = "object" /\ r.engagement_score.value > 100)
      scored_segs == [ i \in 1..Len(segs) |-> ScoredSegment(segs[i], scores) ]
  IN  [ job |-> [ NewJob EXCEPT !.status = "completed", !.progress = 100,
                                !.title = << "Title" >>, !.duration = << 42 >>,
                                !.video_path = << "uploads/video.mp4" >>,
                                !.audio_path = << "temp/audio.wav" >>,
                                !.transcript_path = << "uploads/transcript.json" >> ],
        segments |-> scored_segs,
        shorts |-> [ i \in 1..Len(segs) |-> NewShort(scored_segs[i], i) ] ]

\* The job is complete; each clip is not_uploaded, or was set to pending by the
\* caller of upload_short; each account has no credentials or a token that
\* expires at time 1.
UploadInit ==
  /\ video = CHOOSE v \in Videos : v.probe_duration = 42
  /\ AnalyzerOfProcessor
  /\ \E status \in [ 1..Len(UploadedJob.shorts) -> { "not_uploaded", "pending" } ] :
       db = [ UploadedJob EXCEPT !.shorts =
                [ i \in 1..Len(@) |-> [ @[i] EXCEPT !.upload_status = status[i] ] ] ]
  /\ sess = db
  /\ pc = "idle"
  /\ exc = ""
  /\ engaging_segments = <<>>
  /\ runs = 1
  /\ calls = {}
  /\ workFailed = None
  /\ scored = FALSE
  /\ candidates = <<>>
  /\ tier = 0
  /\ clips = None
  /\ creds \in [ Emails -> { None, << [ token_expires |-> 1 ] >> } ]
  /\ now = 0
  /\ upc = "idle"
  /\ short_id = 0
  /\ user_email = ""
  /\ uploads = 0
  /\ call = NoCall
  /\ MetadataAtRest
  /\ Alone

\* What upload_short leaves alone.
notUploadVars ==
  << video, pc, exc, engaging_segments, runs, calls, workFailed, scored, candidates,
     tier, clips, scoringVars, metadataVars, concurrencyVars >>

\* Lines 74-75: the except clause of upload_short, e being of description d.
MarkFailed(s, id, d) ==
  [ s EXCEPT !.shorts[id].upload_status = "failed",
             !.shorts[id].upload_error = << d >> ]

\* Lines 63-65: the clip takes the id the platform gave.
MarkUploaded(s, id, video_id) ==
  [ s EXCEPT !.shorts[id].youtube_video_id = << video_id >>,
             !.shorts[id].youtube_url = << "https://youtube.com/shorts/" \o video_id >>,
             !.shorts[id].upload_status = "uploaded" ]

\* upload_short(id, email), lines 20-28: the clip is looked up; if there is
\* one it is set to UPLOADING, whatever its state, and that is committed.
UploadStart ==
  /\ upc = "idle"
  /\ uploads < MaxUploads
  /\ uploads' = uploads + 1
  /\ call' = NoCall
  /\ \E id \in 1..(Len(db.shorts) + 1), email \in Emails :
       /\ short_id' = id
       /\ user_email' = email
       /\ \/ \* no such clip (line 22): return
             /\ id > Len(db.shorts)
             /\ upc' = "idle"
             /\ UNCHANGED << db, sess >>
          \/ \* the commit of line 28 succeeds
             /\ id <= Len(db.shorts)
             /\ sess' = [ sess EXCEPT !.shorts[id].upload_status = "uploading" ]
             /\ db' = Committed(sess')
             /\ upc' = "credentials"
          \/ \* the commit of line 28 raises: the except clause
             /\ id <= Len(db.shorts)
             /\ \E d \in FailureDescriptions : sess' = MarkFailed(RolledBack, id, d)
             /\ db' = db
             /\ upc' = "finally"
  /\ UNCHANGED << creds, now >>
  /\ UNCHANGED notUploadVars

\* TokenExpired as it would be if every token were taken for expired.
TokenExpiredAlways(record, time) == TRUE

\* Line 95: token_expires <= now.
TokenExpired(record, time) == record.token_expires <= time

\* The record oauth_handler.refresh_token stores and returns at time `time`.
Refreshed(record, time) == [ record EXCEPT !.token_expires = time + 1 ]

\* Lines 31-33 with _get_valid_credentials(user_email): the credentials of the
\* account, refreshed if expired; without them the except clause.
UploadCredentials ==
  /\ upc = "credentials"
  /\ LET NoCredentials(c) ==
           /\ call' = c
           /\ sess' = MarkFailed(sess, short_id, "No valid YouTube credentials found")
           /\ upc' = "finally"
           /\ creds' = creds
         Valid(c) ==
           /\ call' = c
           /\ sess' = sess
           /\ upc' = "transport"
     IN  \/ \* the query of line 83 raises (lines 114-116)
            NoCredentials(call)
         \/ \* no record (line 85)
            /\ creds[user_email] = None
            /\ NoCredentials(call)
         \/ \* a record
            /\ creds[user_email] # None
            /\ LET record == creds[user_email][1]
                   seen == [ call EXCEPT !.checked =
                              << [ token_expires |-> record.token_expires, now |-> now ] >> ]
                   tried == [ seen EXCEPT !.refreshes = @ + 1 ]
               IN  IF ~TokenExpired(record, now)
                   THEN /\ Valid([ seen EXCEPT !.credential =
                                     << [ user_email |-> user_email, refreshed |-> FALSE ] >> ])
                        /\ creds' = creds
                   ELSE \/ \* refresh_token gives a record
                           /\ Valid([ tried EXCEPT !.credential =
                                        << [ user_email |-> user_email, refreshed |-> TRUE ] >> ])
                           /\ creds' = [ creds EXCEPT ![user_email] = << Refreshed(record, now) >> ]
                        \/ \* refresh_token gives nothing (line 99) or raises (line 114)
                           NoCredentials([ tried EXCEPT !.refresh_failed = TRUE ])
  /\ UNCHANGED << db, now, short_id, user_email, uploads >>
  /\ UNCHANGED notUploadVars

\* Lines 36-70: the request is built and sent; the clip takes the platform's
\* id, or the except clause takes the failure.
UploadTransport ==
  /\ upc = "transport"
  /\ upc' = "finally"
  /\ \/ \* build, _prepare_upload_metadata or MediaFileUpload raise (lines 36-47)
        /\ \E d \in FailureDescriptions : sess' = MarkFailed(sess, short_id, d)
        /\ call' = call
     \/ \* the transport raises (line 57)
        /\ \E d \in FailureDescriptions : sess' = MarkFailed(sess, short_id, d)
        /\ call' = [ call EXCEPT !.transported = TRUE ]
     \/ \* the transport answers without an id (line 70)
        /\ sess' = MarkFailed(sess, short_id, "No video ID returned from YouTube")
        /\ call' = [ call EXCEPT !.transported = TRUE ]
     \/ \* the transport answers with an id
        /\ sess' = MarkUploaded(sess, short_id, "vid")
        /\ call' = [ call EXCEPT !.transported = TRUE ]
  /\ UNCHANGED << db, creds, now, short_id, user_email, uploads >>
  /\ UNCHANGED notUploadVars

\* Line 78: the commit of the finally clause; if it raises, the exception
\* leaves upload_short.
UploadFinally ==
  /\ upc = "finally"
  /\ upc' = "idle"
  /\ \/ /\ db' = Committed(sess)
        /\ sess' = sess
     \/ /\ sess' = RolledBack
        /\ db' = db
  /\ UNCHANGED << creds, now, short_id, user_email, uploads, call >>
  /\ UNCHANGED notUploadVars

\* Time passes; the uploader reads the clock once in a call (line 88), so it is
\* enough to let it pass between calls.
Tick ==
  /\ upc = "idle"
  /\ now < MaxTime
  /\ now' = now + 1
  /\ UNCHANGED << db, sess, creds, upc, short_id, user_email, uploads, call >>
  /\ UNCHANGED notUploadVars

UploadNext ==
  \/ UploadStart
  \/ UploadCredentials
  \/ UploadTransport
  \/ UploadFinally
  \/ Tick

UploadSpec == UploadInit /\ [][UploadNext]_vars

\* ------------------------------------------ two workers, two jobs

\* The worker that is taking steps, with the rows of its job.
Running ==
  [ video |-> video, db |-> db, sess |-> sess, pc |-> pc, exc |-> exc,
    engaging_segments |-> engaging_segments, runs |-> runs, calls |-> calls,
    workFailed |-> workFailed, scored |-> scored, candidates |-> candidates,
    tier |-> tier, clips |-> clips ]

\* A worker that has not yet entered process_video, with its job as submitted.
Waiting(v) ==
  [ video |-> v, db |-> [ job |-> NewJob, segments |-> <<>>, shorts |-> <<>> ],
    sess |-> [ job |-> NewJob, segments |-> <<>>, shorts |-> <<>> ],
    pc |-> "idle", exc |-> "", engaging_segments |-> <<>>, runs |-> 0,
    calls |-> {}, workFailed |-> None, scored |-> FALSE, candidates |-> <<>>,
    tier |-> 0, clips |-> None ]

\* Two jobs are submitted, one of a video of 12 seconds and one of 42, and a
\* worker for each is about to call process_video.
ConcurrentInit ==
  /\ video = CHOOSE v \in Videos : v.probe_duration = 12
  /\ PipelineAtRest
  /\ AnalyzerOfProcessor
  /\ UploaderAtRest
  /\ MetadataAtRest
  /\ running = 1
  /\ peer = << Waiting(CHOOSE v \in Videos : v.probe_duration = 42) >>

\* The scheduler lets the other worker go on.
Switch ==
  /\ peer # None
  /\ running' = 3 - running
  /\ peer' = << Running >>
  /\ video' = peer[1].video
  /\ db' = peer[1].db
  /\ sess' = peer[1].sess
  /\ pc' = peer[1].pc
  /\ exc' = peer[1].exc
  /\ engaging_segments' = peer[1].engaging_segments
  /\ runs' = peer[1].runs
  /\ calls' = peer[1].calls
  /\ workFailed' = peer[1].workFailed
  /\ scored' = peer[1].scored
  /\ candidates' = peer[1].candidates
  /\ tier' = peer[1].tier
  /\ clips' = peer[1].clips
  /\ UNCHANGED << scoringVars, uploadVars, metadataVars >>

ConcurrentNext ==
  \/ Next
  \/ Switch

ConcurrentSpec == ConcurrentInit /\ [][ConcurrentNext]_vars

\* ------------------------------------- _prepare_upload_metadata

\* Clips with at most MaxTags tags are prepared.
MaxTags == 6

\* Clips whose tags are merged with the default tags have at most MaxMerged tags.
MaxMerged == 2

\* Line 138: the tags of an upload may take 500 characters.
TagLimit == 500

\* A tag of n characters.
Tag(c, n) == [ k \in 1..n |-> c ]

\* Line 133.
default_tags ==
  << << "s", "h", "o", "r", "t", "s" >>,
     << "v", "i", "r", "a", "l" >>,
     << "t", "r", "e", "n", "d", "i", "n", "g" >>,
     << "e", "n", "t", "e", "r", "t", "a", "i", "n", "m", "e", "n", "t" >> >>

\* The tags a clip may carry: long ones, so that few of them pass the limit.
LongTags == { Tag("a", 100), Tag("b", 99), Tag("c", 9) }

\* The tags of a clip whose account adds the default tags.
MergedTags == { default_tags[1], Tag("d", 501) }

\* The lists of at most n members of S.
ListsOf(S, n) == UNION { [ 1..m -> S ] : m \in 0..n }

RECURSIVE Join(_)
\* ','.join(tags)
Join(tags) ==
  IF tags = <<>> THEN <<>>
  ELSE IF Len(tags) = 1 THEN tags[1]
  ELSE tags[1] \o << "," >> \o Join(Tail(tags))

RECURSIVE Truncated(_, _)
\* Lines 140-147: the loop over the tags, entered with cumulative_length.
Truncated(tags, cumulative_length) ==
  IF tags = <<>> THEN <<>>
  ELSE IF cumulative_length + Len(Head(tags)) + 1 <= TagLimit
       THEN << Head(tags) >>
              \o Truncated(Tail(tags), cumulative_length + Len(Head(tags)) + 1)
       ELSE <<>>

\* Lines 137-148.
LimitTags(tags) ==
  IF Len(Join(tags)) > TagLimit THEN Truncated(tags, 0) ELSE tags

\* list(set(...)): the members of S once each, in an order of the
\* interpreter's choosing.
Orders(S) ==
  { order \in [ 1..Cardinality(S) -> S ] :
      \A k, l \in 1..Cardinality(S) : k # l => order[k] # order[l] }

\* A clip with its tags (or none) and the settings of its job's account (or no
\* record) is about to have its upload metadata prepared.
MetadataInit ==
  /\ video = CHOOSE v \in Videos : v.probe_duration = 12
  /\ PipelineAtRest
  /\ AnalyzerOfProcessor
  /\ UploaderAtRest
  /\ Alone
  /\ body_tags = None
  /\ \/ /\ short_tags \in { None } \cup { << l >> : l \in ListsOf(LongTags, MaxTags) }
        /\ defaults \in { None, << [ auto_add_hashtags |-> FALSE ] >> }
     \/ /\ short_tags \in { None } \cup { << l >> : l \in ListsOf(MergedTags, MaxMerged) }
        /\ defaults = << [ auto_add_hashtags |-> TRUE ] >>

\* _prepare_upload_metadata(short), lines 131-148: the tags of the body.
PrepareUploadMetadata ==
  /\ body_tags = None
  /\ LET own == IF short_tags = None THEN <<>> ELSE short_tags[1]
     IN  IF defaults # None /\ defaults[1].auto_add_hashtags
         THEN \E order \in Orders(Range(own) \cup Range(default_tags)) :
                body_tags' = << LimitTags(order) >>
         ELSE body_tags' = << LimitTags(own) >>
  /\ UNCHANGED << short_tags, defaults >>
  /\ UNCHANGED << pipelineVars, scoringVars, uploadVars, concurrencyVars >>

MetadataNext == PrepareUploadMetadata

MetadataSpec == MetadataInit /\ [][MetadataNext]_vars

\* ------------------------------------------------------- properties

\* The place of a stage in the order of ProcessingStatus.
StatusRank(status) == CHOOSE i \in 1..Len(StatusOrder) : StatusOrder[i] = status

\* job.error_message as text: None reads as the empty text.
ErrorText(j) == IF j.error_message = None THEN "" ELSE j.error_message[1]

\* The stages of process_video that call a collaborator, in their order.
StageOrder == << "download", "transcribe", "analyze", "edit" >>

StagesUpTo(stage) ==
  { StageOrder[i] : i \in { k \in 1..Len(StageOrder) :
      \E l \in k..Len(StageOrder) : StageOrder[l] = stage } }

\* C1: every change of the job's persisted stage is a move to the next stage of
\* pending < downloading < transcribing < analyzing < editing < uploading <
\* completed, or a move from a non-terminal stage to failed.
C1_StageOrder ==
  [][ db'.job.status # db.job.status =>
        \/ /\ db.job.status # "failed"
           /\ db'.job.status # "failed"
           /\ StatusRank(db'.job.status) = StatusRank(db.job.status) + 1
        \/ /\ db'.job.status = "failed"
           /\ db.job.status \notin {"completed", "failed"} ]_vars

\* C2: once the persisted stage is completed or failed, no step changes the
\* job's stage or progress, a further process_video on the job included.
C2_TerminalStages ==
  [][ db.job.status \in {"completed", "failed"} =>
        /\ db'.job.status = db.job.status
        /\ db'.job.progress = db.job.progress ]_vars

\* C3: when the work of a stage raised during a run, the run leaves the job
\* failed with progress 0 and the description of that failure as its error, and
\* no collaborator of a later stage was invoked in the run.
C3_StageFailureMarksJobFailed ==
  (pc = "idle" /\ workFailed # None) =>
    /\ db.job.status = "failed"
    /\ db.job.progress = 0
    /\ ErrorText(db.job) = workFailed[2]
    /\ calls \subseteq StagesUpTo(workFailed[1])

\* C4: a job whose persisted stage is failed has a non-empty error text.
C4_FailedHasError ==
  db.job.status = "failed" => Truthy(db.job.error_message)

\* C5: a job whose persisted progress is 100 is completed or failed; no job in
\* a stage from pending to uploading has progress 100.
C5_FullProgressIsTerminal ==
  db.job.progress = 100 => db.job.status \in {"completed", "failed"}

\* C5 is about a run that completed.
C5_Witness ==
  /\ pc = "idle"
  /\ db.job.status = "completed"
  /\ db.job.progress = 100
  /\ db.shorts # <<>>

\* C6: while the work of a stage is under way the database already holds that
\* stage with its milestone (downloading 10, transcribing 30, analyzing 50,
\* editing 70), and a completed job holds 100.
C6_StagePersistedBeforeWork ==
  /\ pc = "download" => db.job.status = "downloading" /\ db.job.progress = 10
  /\ pc = "transcribe" => db.job.status = "transcribing" /\ db.job.progress = 30
  /\ pc = "analyze" => db.job.status = "analyzing" /\ db.job.progress = 50
  /\ pc = "edit" => db.job.status = "editing" /\ db.job.progress = 70
  /\ db.job.status = "completed" => db.job.progress = 100

\* C6 is about a stage about to do its work: here the transcoder, in a second run.
C6_Witness ==
  /\ pc = "edit"
  /\ runs = 2
  /\ engaging_segments # <<>>

\* What a commit persists besides stage, progress and error.
OtherData(d) ==
  << d.job.title, d.job.duration, d.job.video_path, d.job.audio_path,
     d.job.transcript_path, d.segments, d.shorts >>

\* C7: a step that changes the persisted progress or error also changes the
\* persisted stage, and a step that persists other data (download metadata,
\* paths, segments, scores, clips) leaves stage, progress and error as they were.
C7_ProgressAndErrorOnlyWithStage ==
  [][ /\ ( \/ db'.job.progress # db.job.progress
           \/ db'.job.error_message # db.job.error_message )
         => db'.job.status # db.job.status
      /\ OtherData(db') # OtherData(db)
         => /\ db'.job.status = db.job.status
            /\ db'.job.progress = db.job.progress
            /\ db'.job.error_message = db.job.error_message ]_vars

\* C8: when _analyze_content returns and the job has a segment of 10 to 60
\* seconds with at least 3 words, the list it returns is not empty.
C8_SelectionNotEmpty ==
  ( /\ pc = "upd_editing"
    /\ \E i \in 1..Len(sess.segments) : RelaxedFilter(sess.segments[i]) )
  => engaging_segments # <<>>

\* `engaging_segments` is the top five of the rows `found`: min(5, n) of them, each one
\* passing the strict filter, in descending order of overall_score, and no row
\* of `found` left out scores higher than one that is in.
IsTopFive(found) ==
  /\ Len(engaging_segments) = Min(5, Cardinality(found))
  /\ Range(engaging_segments) \subseteq found
  /\ \A k \in 1..Len(engaging_segments) : StrictFilter(sess.segments[engaging_segments[k]])
  /\ \A k, l \in 1..Len(engaging_segments) :
       k < l => /\ engaging_segments[k] # engaging_segments[l]
                /\ sess.segments[engaging_segments[k]].overall_score
                     >= sess.segments[engaging_segments[l]].overall_score
  /\ \A i \in found \ Range(engaging_segments) : \A k \in 1..Len(engaging_segments) :
       sess.segments[engaging_segments[k]].overall_score >= sess.segments[i].overall_score

\* The rows of the session that pass the strict filter.
Passing == { i \in 1..Len(sess.segments) : StrictFilter(sess.segments[i]) }

IsRelaxedPick ==
  LET first == CHOOSE i \in 1..Len(sess.segments) :
                 /\ RelaxedFilter(sess.segments[i])
                 /\ \A j \in 1..(i - 1) : ~RelaxedFilter(sess.segments[j])
  IN  /\ engaging_segments = << first >>
      /\ sess.segments[first].overall_score = 300
      /\ \A j \in 1..Len(sess.segments) :
           j # first =>
             sess.segments[j].overall_score = OverallScore(sess.segments[j])

C11_ScoringFailureFallback ==
  [][ (pc = "analyze" /\ (pc' = "handler" \/ tier' = 3)) =>
        /\ pc' = "upd_editing"
        /\ Len(engaging_segments') <= 3
        /\ \A k \in 1..Len(engaging_segments') :
             /\ DurationFilter(sess'.segments[engaging_segments'[k]])
             /\ sess'.segments[engaging_segments'[k]].overall_score = 500
        /\ \A i \in 1..Len(sess'.segments) :
             i \notin Range(engaging_segments') =>
               sess'.segments[i].overall_score = db'.segments[i].overall_score ]_vars

\* C12: the persisted overall_score of every segment is the weighted sum
\* 0.3*engagement + 0.2*emotion + 0.3*viral_potential + 0.2*quotability of its
\* own persisted raw scores, and lies in [0, 1].
C12_OverallIsWeightedSum ==
  \A i \in 1..Len(db.segments) :
    /\ db.segments[i].overall_score = OverallScore(db.segments[i])
    /\ db.segments[i].overall_score \in 0..1000

\* How many keywords of the list occur in the lowercased input_text.
Occurrences(keywords) ==
  Cardinality({ keyword \in keywords :
    \E k \in 1..Len(input_text) :
      \A j \in 1..Len(keyword) :
        /\ k + j - 1 <= Len(input_text)
        /\ Lower(input_text[k + j - 1]) = keyword[j] })

\* How many words input_text has: the places where a word begins.
Words ==
  Cardinality({ k \in 1..Len(input_text) :
    /\ ~IsSpace(input_text[k])
    /\ k = 1 \/ IsSpace(input_text[k - 1]) })

\* C13: _fallback_analysis(text) gives engagement = max(0.4, min(1.0, 0.2*e)),
\* emotion = max(0.3, min(1.0, 0.2*m)), viral = max(0.3, min(1.0, 0.3*v)) and
\* quotability = min(1.0, words/20), with e, m, v the numbers of keywords of
\* the three lists that occur in the lowercased text; so engagement >= 0.4,
\* emotion >= 0.3, viral >= 0.3 and all four lie in [0, 1].
C13_FallbackScores ==
  heuristic # None =>
    /\ heuristic[1].engagement_score =
         Max(40, Min(100, 20 * Occurrences(engagement_keywords)))
    /\ heuristic[1].emotion_score =
         Max(30, Min(100, 20 * Occurrences(emotion_keywords)))
    /\ heuristic[1].viral_potential =
         Max(30, Min(100, 30 * Occurrences(viral_keywords)))
    /\ heuristic[1].quotability = Min(100, 5 * Words)
    /\ heuristic[1].engagement_score \in 40..100
    /\ heuristic[1].emotion_score \in 30..100
    /\ heuristic[1].viral_potential \in 30..100
    /\ heuristic[1].quotability \in 0..100

\* C13 is about a text with keywords in capitals, a keyword inside a longer
\* word and fewer than 20 words: engagement 0.6 from three hits, emotion at its
\* floor, viral 0.3 from one hit, quotability below 1.
C13_Witness ==
  /\ heuristic # None
  /\ Occurrences(engagement_keywords) = 3
  /\ Occurrences(viral_keywords) = 1
  /\ heuristic[1].engagement_score = 60
  /\ heuristic[1].emotion_score = 30
  /\ heuristic[1].viral_potential = 30
  /\ heuristic[1].quotability = 20

\* C14: whatever the oracle does, and whether or not it is configured, a
\* request to score a text gets a result and no failure leaves the analyzer:
\* the four numbers lie in [0, 1], emotions has at most 5 entries, keywords at
\* most 10, and the result is the fallback's when the oracle gave nothing usable.
C14_ScoreAlwaysReturns ==
  /\ analyzer # "raised"
  /\ returned # None =>
       /\ \A score \in { returned[1].engagement_score, returned[1].emotion_score,
                          returned[1].viral_potential, returned[1].quotability } :
            score \in 0..100
       /\ Len(returned[1].emotions) <= 5
       /\ Len(returned[1].keywords) <= 10
       /\ ~Usable(oracle[1]) => returned[1] = FallbackAnalysis(input_text)

\* The rows this run of _generate_shorts has left in the database.
NewClips == SubSeq(db.shorts, clips[1].before + 1, Len(db.shorts))

\* The database holds a row of this run for position k of engaging_segments:
\* that segment's start and end, made as short number k.
Recorded(k) ==
  \E j \in 1..Len(NewClips) :
    /\ NewClips[j].output_path = k
    /\ NewClips[j].start_time = sess.segments[engaging_segments[k]].start_time
    /\ NewClips[j].end_time = sess.segments[engaging_segments[k]].end_time

\* _generate_shorts has just ended, by returning or by raising.
EditingEnded ==
  /\ clips # None
  /\ \/ pc = "upd_completed"
     \/ pc = "handler" /\ workFailed # None /\ workFailed[1] = "edit"

C16_AllClipsFailedFailsJob ==
  ( /\ pc = "idle"
    /\ clips # None
    /\ engaging_segments # <<>>
    /\ clips[1].made = {} )
  => /\ db.job.status = "failed"
     /\ Truthy(db.job.error_message)

\* The edges of the upload state machine.
UploadEdges ==
  { << "not_uploaded", "pending" >>, << "pending", "uploading" >>,
    << "uploading", "uploaded" >>, << "uploading", "failed" >> }

\* C17: the persisted upload state of a clip changes only along
\* not_uploaded -> pending -> uploading -> uploaded | failed; in particular no
\* upload_short moves a clip to uploading from not_uploaded, uploaded or
\* failed, or changes the state of an uploaded clip.
C17_UploadEdges ==
  [][ \A k \in 1..Len(db.shorts) :
        db'.shorts[k].upload_status # db.shorts[k].upload_status =>
          << db.shorts[k].upload_status, db'.shorts[k].upload_status >> \in UploadEdges
    ]_vars

\* C18: a persisted clip that is uploaded has its platform id and url, and a
\* persisted clip that is failed has a non-empty upload error.
C18_UploadFieldsConsistent ==
  \A k \in 1..Len(db.shorts) :
    /\ db.shorts[k].upload_status = "uploaded" =>
         /\ Truthy(db.shorts[k].youtube_video_id)
         /\ Truthy(db.shorts[k].youtube_url)
    /\ db.shorts[k].upload_status = "failed" => Truthy(db.shorts[k].upload_error)

\* C19: the transport is invoked only with a credential of the job's account
\* that was not expired when checked or was refreshed in this call; and an
\* upload_short on a clip that ends while the job's account has no record, or
\* after its refresh failed, has not invoked the transport and leaves the
\* clip failed.
C19_TransportNeedsCredential ==
  /\ call.transported =>
       /\ call.credential # None
       /\ << call.credential[1].user_email >> = db.job.user_email
       /\ \/ call.credential[1].refreshed
          \/ call.checked[1].token_expires > call.checked[1].now
  /\ ( /\ upc = "idle" /\ uploads > 0 /\ short_id \in 1..Len(db.shorts)
       /\ creds[db.job.user_email[1]] = None \/ call.refresh_failed )
     => /\ ~call.transported
        /\ db.shorts[short_id].upload_status = "failed"

\* C20: one upload_short attempts at most one refresh, and only for a token
\* whose stored expiry was at or before the time of the check; after a failed
\* refresh it attempts no further refresh and does not invoke the transport.
C20_RefreshAtMostOnce ==
  /\ call.refreshes <= 1
  /\ call.refreshes > 0 =>
       /\ call.checked # None
       /\ call.checked[1].token_expires <= call.checked[1].now
  /\ call.refresh_failed =>
       /\ call.refreshes = 1
       /\ ~call.transported
       /\ upc \in { "finally", "idle" }

\* C20 is about a second upload_short whose token expired as time passed and
\* whose refresh failed: the call has ended and the clip is failed.
C20_Witness ==
  /\ upc = "idle"
  /\ uploads = 2
  /\ call.refresh_failed
  /\ call.checked[1].token_expires > 0
  /\ db.shorts[short_id].upload_status = "failed"

\* short.tags or []
ClipTags == IF short_tags = None THEN <<>> ELSE short_tags[1]

\* `result` is the longest prefix of `tags` whose comma-joined text has at
\* most 500 characters.
IsLongestPrefix(result, tags) ==
  \E n \in 0..Len(tags) :
    /\ result = SubSeq(tags, 1, n)
    /\ Len(Join(result)) <= 500
    /\ n < Len(tags) => Len(Join(SubSeq(tags, 1, n + 1))) > 500

\* C21: the tags _prepare_upload_metadata puts in the body have a comma-joined
\* length of at most 500; when the clip's tags joined by commas exceed 500
\* characters, they are the longest prefix of the clip's tags, in their order,
\* whose comma-joined length is at most 500.
C21_TagsWithinLimit ==
  body_tags # None =>
    /\ Len(Join(body_tags[1])) <= 500
    /\ Len(Join(ClipTags)) > 500 => IsLongestPrefix(body_tags[1], ClipTags)

\* The persisted rows of worker w's job are rows of its own video: the
\* duration yt-dlp gave for it, its time windows as segments, and clips cut
\* from those segments.
OwnRows(w) ==
  /\ w.db.job.duration \in { None, << w.video.info_duration >> }
  /\ Len(w.db.segments) \in { 0, SegmentCount(w.video.probe_duration) }
  /\ \A i \in 1..Len(w.db.segments) :
       /\ w.db.segments[i].start_time = (i - 1) * SegmentLength
       /\ w.db.segments[i].end_time = Min(i * SegmentLength, w.video.probe_duration)
  /\ \A k \in 1..Len(w.db.shorts) : \E i \in 1..Len(w.db.segments) :
       /\ w.db.shorts[k].start_time = w.db.segments[i].start_time
       /\ w.db.shorts[k].end_time = w.db.segments[i].end_time

Scores(d) ==
  [ i \in 1..Len(d.segments) |->
      << d.segments[i].engagement_score, d.segments[i].emotion_score,
         d.segments[i].viral_potential, d.segments[i].quotability,
         d.segments[i].overall_score >> ]

\* The scores of the row are ones the scoring loop computes for it: the
\* analysis of its text for some answer of the oracle, with its weighted sum.
NewlyComputed(seg) ==
  \E r \in OracleResponses :
    LET new == ScoredSegment(seg, AnalyzeSegment(seg.text, r))
    IN  /\ seg.engagement_score = new.engagement_score
        /\ seg.emotion_score = new.emotion_score
        /\ seg.viral_potential = new.viral_potential
        /\ seg.quotability = new.quotability
        /\ seg.overall_score = new.overall_score

\* C23: the step that ends the Analyzing stage, and every later step of the
\* same run that commits, leaves the persisted scores of the job's segments
\* either all newly computed or all as they were.
C23_ScoresAtomic ==
  [][ "analyze" \in calls' =>
        \/ Scores(db') = Scores(db)
        \/ \A i \in 1..Len(db'.segments) : NewlyComputed(db'.segments[i]) ]_vars

\* What the database d holds of the job's artifacts is still in d2: title,
\* duration and paths as they were, every segment with its times and text,
\* every clip as it was.
Kept(d, d2) ==
  /\ \A x \in { "title", "duration", "video_path", "audio_path", "transcript_path" } :
       d.job[x] # None => d2.job[x] = d.job[x]
  /\ Len(d2.segments) >= Len(d.segments)
  /\ \A i \in 1..Len(d.segments) :
       /\ d2.segments[i].start_time = d.segments[i].start_time
       /\ d2.segments[i].end_time = d.segments[i].end_time
       /\ d2.segments[i].text = d.segments[i].text
  /\ Len(d2.shorts) >= Len(d.shorts)
  /\ SubSeq(d2.shorts, 1, Len(d.shorts)) = d.shorts

\* C24: the step in which a stage of process_video fails deletes or resets
\* nothing the database holds of the job's title, duration, paths, segments
\* and clips, and the step that sets the job to failed changes none of them,
\* nor any persisted score.
C24_FailureKeepsArtifacts ==
  [][ /\ pc' = "handler" => Kept(db, db')
      /\ pc = "handler" => OtherData(db') = OtherData(db) ]_vars

\* C24 is about a second run that failed after a first one had left segments,
\* scores and clips.
C24_Witness ==
  /\ pc = "idle"
  /\ runs = 2
  /\ db.job.status = "failed"
  /\ db.job.video_path # None
  /\ db.shorts # <<>>
  /\ \E i \in 1..Len(db.segments) : db.segments[i].overall_score > 0

\* C25: whenever a run of process_video has completed, the first or a later
\* one, the job holds the segments of one run (one row for each time window of
\* its video) and no clip twice (one row at most for an output path).
C25_RerunIdempotent ==
  (pc = "idle" /\ db.job.status = "completed") =>
    /\ Len(db.segments) = Len(MeaningfulSegments(TimeSegments(video.probe_duration)))
    /\ \A i, j \in 1..Len(db.segments) :
         i # j => db.segments[i].start_time # db.segments[j].start_time
    /\ \A k, l \in 1..Len(db.shorts) :
         k # l => db.shorts[k].output_path # db.shorts[l].output_path

\* C26: every persisted segment has 0 <= start < end <= the duration of the
\* video, and the segments of the job, in the order in which they were created
\* and are listed, ascend in start time without overlapping.
C26_SegmentsChronological ==
  /\ \A i \in 1..Len(db.segments) :
       /\ 0 <= db.segments[i].start_time
       /\ db.segments[i].start_time < db.segments[i].end_time
       /\ db.segments[i].end_time <= video.probe_duration
  /\ \A i, j \in 1..Len(db.segments) :
       i < j => db.segments[i].end_time <= db.segments[j].start_time

\* C27: when _generate_shorts has ended in a run, the selector returned at
\* most 5 segments, all distinct; the clips the run recorded are at most as
\* many, each one is of a selected segment of its own, and it carries that
\* segment's start and end, duration = end - start and, as engagement score,
\* the segment's overall score.
C27_ClipsOfSelectedSegments ==
  EditingEnded =>
    /\ Len(engaging_segments) <= 5
    /\ \A k, l \in 1..Len(engaging_segments) :
         k # l => engaging_segments[k] # engaging_segments[l]
    /\ Len(NewClips) <= Len(engaging_segments)
    /\ \A j \in 1..Len(NewClips) :
         /\ NewClips[j].output_path \in 1..Len(engaging_segments)
         /\ \A l \in 1..Len(NewClips) :
              l # j => NewClips[l].output_path # NewClips[j].output_path
         /\ LET seg == db.segments[engaging_segments[NewClips[j].output_path]]
            IN  /\ NewClips[j].start_time = seg.start_time
                /\ NewClips[j].end_time = seg.end_time
                /\ NewClips[j].duration = seg.end_time - seg.start_time
                /\ NewClips[j].engagement_score = seg.overall_score

\* C27 is about a run in which five segments were selected and a clip was
\* recorded for each of them.
C27_Witness ==
  /\ pc = "upd_completed"
  /\ clips # None
  /\ Len(engaging_segments) = 5
  /\ Len(NewClips) = 5
  /\ NewClips[1].engagement_score > 0

\* C28: when an invocation of process_video on the job has ended, the
\* persisted stage of the job is completed or failed, also when what failed was
\* the commit of a stage transition.
C28_RunEndsTerminal ==
  (pc = "idle" /\ runs > 0) => db.job.status \in { "completed", "failed" }

\* The oracle failed for every segment of the job: each row holds what
\* _fallback_analysis gives for its text.
OracleFailedForAll ==
  /\ scored
  /\ sess.segments # <<>>
  /\ \A i \in 1..Len(sess.segments) :
       LET a == FallbackAnalysis(sess.segments[i].text)
       IN  /\ sess.segments[i].engagement_score = a.engagement_score
           /\ sess.segments[i].emotion_score = a.emotion_score
           /\ sess.segments[i].viral_potential = a.viral_potential
           /\ sess.segments[i].quotability = a.quotability

\* Every row has a text of 6 words with no keyword of the three lists, the
\* scores 0.4, 0.3, 0.3, 0.3 and, unless the selector picked it, overall 0.33;
\* no row passes the strict filter; the selector returned at most one row,
\* with overall 0.3.
OnePickOfFallbackScores ==
  /\ \A i \in 1..Len(sess.segments) :
       /\ WordCount(sess.segments[i].text) = 6
       /\ KeywordHits(engagement_keywords \cup emotion_keywords \cup viral_keywords,
                      TextLower(sess.segments[i].text)) = 0
       /\ sess.segments[i].engagement_score = 40
       /\ sess.segments[i].emotion_score = 30
       /\ sess.segments[i].viral_potential = 30
       /\ sess.segments[i].quotability = 30
       /\ OverallScore(sess.segments[i]) = 330
       /\ i \notin Range(engaging_segments) => sess.segments[i].overall_score = 330
  /\ Passing = {}
  /\ Len(engaging_segments) <= 1
  /\ \A k \in 1..Len(engaging_segments) :
       sess.segments[engaging_segments[k]].overall_score = 300

UploadFields(short) ==
  << short.upload_status, short.upload_error, short.youtube_video_id, short.youtube_url >>

\* A call of upload_short has ended.
UploadEnded == upc = "idle" /\ uploads > 0

\* The clip that the ended call was about is persisted as uploaded or failed.
UploadSettled ==
  UploadEnded /\ short_id <= Len(db.shorts) =>
    db.shorts[short_id].upload_status \in { "uploaded", "failed" }

\* A step of upload_short keeps the job, the segments and every clip but its
\* own, and keeps everything when no clip has the id.
UploadFrame ==
  /\ db'.job = db.job
  /\ db'.segments = db.segments
  /\ Len(db'.shorts) = Len(db.shorts)
  /\ \A i \in 1..Len(db.shorts) :
       i # short_id' => UploadFields(db'.shorts[i]) = UploadFields(db.shorts[i])
  /\ short_id' > Len(db.shorts) => db' = db

\* C30: every call of upload_short on an existing clip ends with the clip
\* persisted as uploaded or failed, never as uploading; no step of it changes
\* the job's status, progress or error, nor the upload fields of another clip;
\* a call on an id that no clip has changes nothing persisted.
C30_UploadEndsSettled == []UploadSettled /\ [][UploadFrame]_vars

====
